---- MODULE Spec2Model ----
(***************************************************************************)
(* A model of simple-settings (src/src/lib.rs): a Settings<T> owns one     *)
(* open file handle and one in-memory value; SettingsGuard borrows the     *)
(* value read-only, MutableSettingsGuard borrows value and handle mutably  *)
(* and rewrites the file when it is dropped.                               *)
(*                                                                         *)
(* The file system is one path.  Every std::fs call of the source is one   *)
(* step, so that the handles of two Settings on the same path interleave   *)
(* call by call, and a process that stops does so between two calls.       *)
(***************************************************************************)
EXTENDS Integers, Sequences, FiniteSets, TLC

\* Bounds of the model.
MaxLen == 3
MaxReaders == 2

---------------------------------------------------------------------------
(* The serialization collaborator (toml::to_vec / toml::from_str) for a T   *)
(* with two optional keys.  A document is a sequence of bytes: "a" and "b"  *)
(* are the two key/value lines, "ws" is insignificant text (blank line,     *)
(* comment), "nul" is a zero byte (valid UTF-8, no TOML), "xff" is a byte   *)
(* that is no UTF-8.                                                        *)

Keys == {"a", "b"}
Bytes == {"a", "b", "ws", "nul", "xff"}

\* The values a T can take: any subset of the keys, and one value the
\* serializer refuses (toml::to_vec returns Err).
Unencodable == {"x"}
Values == (SUBSET Keys) \cup {Unencodable}

Encodable(v) == v \subseteq Keys

\* toml::to_vec: the keys present, in the serializer's fixed order.
Encode(v) ==
    (IF "a" \in v THEN <<"a">> ELSE <<>>) \o (IF "b" \in v THEN <<"b">> ELSE <<>>)

Count(bytes, k) == Cardinality({i \in 1..Len(bytes) : bytes[i] = k})

\* toml::from_str: insignificant bytes are skipped, a key may come once, in
\* any order; anything else is a parse error.
DecodeOk(bytes) ==
    /\ \A i \in 1..Len(bytes) : bytes[i] \in Keys \cup {"ws"}
    /\ \A k \in Keys : Count(bytes, k) <= 1

DecodeVal(bytes) == {k \in Keys : Count(bytes, k) = 1}

\* File::read_to_string: fails on content that is no UTF-8.
ReadOk(bytes) == \A i \in 1..Len(bytes) : bytes[i] # "xff"

---------------------------------------------------------------------------
(* The file system: one path.                                               *)

Contents == UNION {[1..n -> Bytes] : n \in 0..MaxLen}

\* write(2) of bytes at offset pos: a position past the end leaves a
\* zero-filled gap, bytes after the written range stay.
WriteAt(content, pos, bytes) ==
    LET padded == IF pos > Len(content)
                  THEN content \o [i \in 1..(pos - Len(content)) |-> "nul"]
                  ELSE content
    IN  SubSeq(padded, 1, pos) \o bytes
            \o SubSeq(padded, pos + Len(bytes) + 1, Len(padded))

\* open(2) with O_RDWR, as OpenOptions::new().read(true).write(true).open
CanOpenRW(f) == f.exists /\ f.r /\ f.w

\* open(2) with O_WRONLY|O_CREAT|O_TRUNC, as File::create
CanCreate(f) == ~f.exists \/ f.w

VARIABLES
    file,   \* the path: [exists, r, w, content]
    st,     \* per Settings slot: the Settings, its guards and its caller
    ev      \* the step taken last: [op, s]

vars == <<file, st, ev>>

Stores == {"s1", "s2"}

\* A slot with no Settings in it; res is what the last call returned and
\* trace the collaborator calls it made.  acq is the value when the last
\* write guard was taken, old and pos0 the file content and the handle
\* position when its drop() was entered.
NoStore(res, trace) ==
    [phase |-> "none", pos |-> 0, data |-> {}, readers |-> 0, writers |-> 0,
     inNew |-> FALSE, exit |-> "none", runs |-> 0, fail |-> "none",
     trace |-> trace, res |-> res, acq |-> {}, old |-> <<>>, pos0 |-> 0]

Init ==
    /\ file \in {[exists |-> FALSE, r |-> TRUE, w |-> TRUE, content |-> <<>>]}
            \cup [exists : {TRUE}, r : BOOLEAN, w : BOOLEAN, content : Contents]
    /\ st = [s \in Stores |-> NoStore("none", <<>>)]
    /\ ev = [op |-> "init", s |-> "s1"]

---------------------------------------------------------------------------
(* Settings<T> { file, data } and its guards.                               *)

\* struct Settings: a handle at position pos and the value data, no guard.
Settings(pos, data, trace) ==
    [phase |-> "idle", pos |-> pos, data |-> data, readers |-> 0, writers |-> 0,
     inNew |-> FALSE, exit |-> "none", runs |-> 0, fail |-> "none",
     trace |-> trace, res |-> "none", acq |-> {}, old |-> <<>>, pos0 |-> 0]

\* A variant of guard that rewinds the handle.
guard_Rewinds(rec) == [rec EXCEPT !.readers = @ + 1, !.pos = 0]

\* Settings::guard(&self): one more shared borrow of data.
guard(rec) == [rec EXCEPT !.readers = @ + 1]

\* Settings::guard_mut(&mut self): the exclusive borrow of data and file.
guard_mut(rec) ==
    [rec EXCEPT !.writers = @ + 1, !.runs = 0, !.exit = "none",
                !.acq = rec.data, !.old = <<>>, !.pos0 = 0]

\* The borrow rules of the two signatures: &self needs no live &mut borrow,
\* &mut self needs no live borrow at all.
CanBorrowShared(rec) == rec.phase = "idle" /\ rec.writers = 0

\* A variant of CanBorrowMut for a guard_mut(&self): shared borrows may live.
CanBorrowMut_Shared(rec) == rec.phase = "idle" /\ rec.writers = 0

CanBorrowMut(rec) == rec.phase = "idle" /\ rec.writers = 0 /\ rec.readers = 0

\* The scope of a MutableSettingsGuard ends: drop() is entered.
drop_enter(rec, how, trace) ==
    [rec EXCEPT !.phase = "set_len", !.runs = @ + 1, !.exit = how,
                !.fail = "none", !.trace = trace,
                !.old = file.content, !.pos0 = rec.pos]

\* An unwrap() in drop() meets an Err: the thread panics.
panicked(rec, why) ==
    [rec EXCEPT !.phase = "panic", !.fail = why, !.writers = 0, !.readers = 0]

\* drop() returns: the guard is gone.  Inside new() the Settings is then
\* returned; a caller that was unwinding goes on unwinding.
drop_return(rec) ==
    [rec EXCEPT !.phase = IF rec.exit = "unwind" THEN "unwound" ELSE "idle",
                !.writers = 0,
                !.res = IF rec.inNew THEN "created" ELSE @]

Step(s, op, rec) ==
    /\ st' = [st EXCEPT ![s] = rec]
    /\ ev' = [op |-> op, s |-> s]

\* A variant of New that returns the Settings without the write-back.
New_NoWriteBack(s, v) ==
    /\ st[s].phase = "none"
    /\ IF CanCreate(file)
       THEN /\ file' = [exists |-> TRUE,
                        r |-> IF file.exists THEN file.r ELSE TRUE,
                        w |-> IF file.exists THEN file.w ELSE TRUE,
                        content |-> <<>>]
            /\ Step(s, "new",
                    [Settings(0, v, <<"create">>) EXCEPT !.inNew = TRUE,
                                                         !.res = "created"])
       ELSE /\ file' = file
            /\ Step(s, "new", NoStore("err_io", <<"create">>))

\* Settings::new: File::create, then a MutableSettingsGuard made and dropped
\* at once (let _ = s.guard_mut()), then Ok(s).
New(s, v) ==
    /\ st[s].phase = "none"
    /\ IF CanCreate(file)
       THEN /\ file' = [exists |-> TRUE,
                        r |-> IF file.exists THEN file.r ELSE TRUE,
                        w |-> IF file.exists THEN file.w ELSE TRUE,
                        content |-> <<>>]
            /\ Step(s, "new",
                    [drop_enter(guard_mut(Settings(0, v, <<>>)), "normal", <<"create">>)
                        EXCEPT !.inNew = TRUE, !.old = <<>>])
       ELSE /\ file' = file
            /\ Step(s, "new", NoStore("err_io", <<"create">>))

\* A variant of LoadOutcome that propagates the open error with ? instead
\* of mapping it to None.
LoadOutcome_OpenErrIsErr(f) ==
    IF ~CanOpenRW(f)
    THEN NoStore("err_open", <<"open">>)
    ELSE IF ~ReadOk(f.content)
    THEN NoStore("err_read", <<"open", "read">>)
    ELSE IF ~DecodeOk(f.content)
    THEN NoStore("err_decode", <<"open", "read", "decode">>)
    ELSE [Settings(Len(f.content), DecodeVal(f.content),
                   <<"open", "read", "decode">>) EXCEPT !.res = "some"]

\* A variant of LoadOutcome that turns a decode error into None (.ok()).
LoadOutcome_DecodeErrIsNone(f) ==
    IF ~CanOpenRW(f)
    THEN NoStore("absent", <<"open">>)
    ELSE IF ~ReadOk(f.content)
    THEN NoStore("err_read", <<"open", "read">>)
    ELSE IF ~DecodeOk(f.content)
    THEN NoStore("absent", <<"open", "read", "decode">>)
    ELSE [Settings(Len(f.content), DecodeVal(f.content),
                   <<"open", "read", "decode">>) EXCEPT !.res = "some"]

\* What Settings::load returns for the path in state f: Ok(None) when the
\* open for read+write fails; else read_to_string and toml::from_str, either
\* of which returns Err; else the Settings, its handle at the end of file.
LoadOutcome(f) ==
    IF ~CanOpenRW(f)
    THEN NoStore("absent", <<"open">>)
    ELSE IF ~ReadOk(f.content)
    THEN NoStore("err_read", <<"open", "read">>)
    ELSE IF ~DecodeOk(f.content)
    THEN NoStore("err_decode", <<"open", "read", "decode">>)
    ELSE [Settings(Len(f.content), DecodeVal(f.content),
                   <<"open", "read", "decode">>) EXCEPT !.res = "some"]

\* A variant of Load that opens with create(true).
Load_CreatesFile(s) ==
    /\ st[s].phase = "none"
    /\ file' = IF file.exists
               THEN file
               ELSE [exists |-> TRUE, r |-> TRUE, w |-> TRUE, content |-> <<>>]
    /\ Step(s, "load", LoadOutcome(file'))

\* Settings::load
Load(s) ==
    /\ st[s].phase = "none"
    /\ file' = file
    /\ Step(s, "load", LoadOutcome(file))

\* The Settings goes out of scope with no guard left: the handle is closed.
Close(s) ==
    /\ st[s].phase = "idle" /\ st[s].readers = 0 /\ st[s].writers = 0
    /\ file' = file
    /\ Step(s, "close", NoStore("none", <<>>))

\* Settings::guard
Guard(s) ==
    /\ CanBorrowShared(st[s])
    /\ st[s].readers < MaxReaders
    /\ file' = file
    /\ Step(s, "guard", guard(st[s]))

\* SettingsGuard::deref
Deref(s) ==
    /\ st[s].phase = "idle" /\ st[s].readers > 0
    /\ file' = file
    /\ Step(s, "deref", st[s])

\* A SettingsGuard goes out of scope (it has no Drop).
DropGuard(s) ==
    /\ st[s].phase = "idle" /\ st[s].readers > 0
    /\ file' = file
    /\ Step(s, "drop_guard", [st[s] EXCEPT !.readers = @ - 1])

\* A variant of GuardMut that truncates the file when the guard is taken.
GuardMut_Truncates(s) ==
    /\ CanBorrowMut(st[s])
    /\ file' = [file EXCEPT !.content = <<>>]
    /\ Step(s, "guard_mut", [guard_mut(st[s]) EXCEPT !.inNew = FALSE])

\* Settings::guard_mut
GuardMut(s) ==
    /\ CanBorrowMut(st[s])
    /\ file' = file
    /\ Step(s, "guard_mut", [guard_mut(st[s]) EXCEPT !.inNew = FALSE])

\* MutableSettingsGuard::deref_mut and an assignment through it.
DerefMut(s, v) ==
    /\ st[s].phase = "idle" /\ st[s].writers > 0
    /\ file' = file
    /\ Step(s, "deref_mut", [st[s] EXCEPT !.data = v])

\* The caller's scope ends: by running off its end, by an early return (a
\* return or a ? that propagates an Err), or by a panic that unwinds.
ExitKinds == {"normal", "return", "unwind"}

\* A variant of ExitScope in which an early return leaves the guard
\* undropped.
ExitScope_EarlySkipsDrop(s, how) ==
    /\ st[s].phase = "idle" /\ st[s].writers > 0
    /\ file' = file
    /\ IF how = "return"
       THEN Step(s, "exit", [st[s] EXCEPT !.writers = 0, !.exit = how])
       ELSE Step(s, "exit", drop_enter(st[s], how, <<>>))

ExitScope(s, how) ==
    /\ st[s].phase = "idle" /\ st[s].writers > 0
    /\ file' = file
    /\ Step(s, "exit", drop_enter(st[s], how, <<>>))

\* A variant of DropSetLen that leaves the length as it is.
DropSetLen_NoTruncate(s, ok) ==
    /\ st[s].phase = "set_len"
    /\ file' = file
    /\ IF ok
       THEN Step(s, "set_len", [st[s] EXCEPT !.phase = "sync1",
                                             !.trace = Append(@, "set_len")])
       ELSE Step(s, "set_len", panicked(st[s], "set_len"))

\* drop(): self.file.set_len(0).unwrap()
DropSetLen(s, ok) ==
    /\ st[s].phase = "set_len"
    /\ IF ok
       THEN /\ file' = [file EXCEPT !.content = <<>>]
            /\ Step(s, "set_len", [st[s] EXCEPT !.phase = "sync1",
                                                !.trace = Append(@, "set_len")])
       ELSE /\ file' = file
            /\ Step(s, "set_len", panicked(st[s], "set_len"))

\* A variant of DropSync1 that notes the Err and goes on (no unwrap).
DropSync1_IgnoresErr(s, ok) ==
    /\ st[s].phase = "sync1"
    /\ file' = file
    /\ Step(s, "sync1", [st[s] EXCEPT !.phase = "seek",
                                      !.fail = IF ok THEN @ ELSE "sync",
                                      !.trace = Append(@, "sync")])

\* drop(): self.file.sync_all().unwrap(), the first
DropSync1(s, ok) ==
    /\ st[s].phase = "sync1"
    /\ file' = file
    /\ IF ok
       THEN Step(s, "sync1", [st[s] EXCEPT !.phase = "seek",
                                           !.trace = Append(@, "sync")])
       ELSE Step(s, "sync1", panicked(st[s], "sync"))

\* A variant of DropSeek that seeks to the end (SeekFrom::End(0)).
DropSeek_ToEnd(s, ok) ==
    /\ st[s].phase = "seek"
    /\ file' = file
    /\ IF ok
       THEN Step(s, "seek", [st[s] EXCEPT !.phase = "write",
                                          !.pos = Len(file.content),
                                          !.trace = Append(@, "seek")])
       ELSE Step(s, "seek", panicked(st[s], "seek"))

\* A variant of DropSeek that leaves the position where it is.
DropSeek_NoRewind(s, ok) ==
    /\ st[s].phase = "seek"
    /\ file' = file
    /\ IF ok
       THEN Step(s, "seek", [st[s] EXCEPT !.phase = "write",
                                          !.trace = Append(@, "seek")])
       ELSE Step(s, "seek", panicked(st[s], "seek"))

\* drop(): self.file.seek(SeekFrom::Start(0)).unwrap()
DropSeek(s, ok) ==
    /\ st[s].phase = "seek"
    /\ file' = file
    /\ IF ok
       THEN Step(s, "seek", [st[s] EXCEPT !.phase = "write", !.pos = 0,
                                          !.trace = Append(@, "seek")])
       ELSE Step(s, "seek", panicked(st[s], "seek"))

\* A variant of DropWrite that writes nothing when the value is the one the
\* guard was taken with.
DropWrite_SkipsClean(s, written) ==
    /\ st[s].phase = "write"
    /\ IF st[s].data = st[s].acq
       THEN /\ written = 0
            /\ file' = file
            /\ Step(s, "write", [st[s] EXCEPT !.phase = "sync2",
                                              !.trace = @ \o <<"encode", "write">>])
       ELSE IF ~Encodable(st[s].data)
       THEN /\ written = 0
            /\ file' = file
            /\ Step(s, "write", panicked([st[s] EXCEPT !.trace = Append(@, "encode")],
                                         "encode"))
       ELSE LET bytes == Encode(st[s].data)
                rec == [st[s] EXCEPT !.pos = @ + written,
                                     !.trace = @ \o <<"encode", "write">>]
            IN  /\ written \in 0..Len(bytes)
                /\ file' = [file EXCEPT
                              !.content = WriteAt(@, st[s].pos, SubSeq(bytes, 1, written))]
                /\ IF written = Len(bytes)
                   THEN Step(s, "write", [rec EXCEPT !.phase = "sync2"])
                   ELSE Step(s, "write", panicked(rec, "write"))

\* A variant of DropWrite that encodes the value the guard was taken with.
DropWrite_EncodesAcquired(s, written) ==
    /\ st[s].phase = "write"
    /\ IF ~Encodable(st[s].acq)
       THEN /\ written = 0
            /\ file' = file
            /\ Step(s, "write", panicked([st[s] EXCEPT !.trace = Append(@, "encode")],
                                         "encode"))
       ELSE LET bytes == Encode(st[s].acq)
                rec == [st[s] EXCEPT !.pos = @ + written,
                                     !.trace = @ \o <<"encode", "write">>]
            IN  /\ written \in 0..Len(bytes)
                /\ file' = [file EXCEPT
                              !.content = WriteAt(@, st[s].pos, SubSeq(bytes, 1, written))]
                /\ IF written = Len(bytes)
                   THEN Step(s, "write", [rec EXCEPT !.phase = "sync2"])
                   ELSE Step(s, "write", panicked(rec, "write"))

\* drop(): self.file.write_all(&toml::to_vec(&self.data).unwrap()).unwrap()
\* written is the number of bytes that reached the file: all of them, or
\* fewer when write_all returns Err.
DropWrite(s, written) ==
    /\ st[s].phase = "write"
    /\ IF ~Encodable(st[s].data)
       THEN /\ written = 0
            /\ file' = file
            /\ Step(s, "write", panicked([st[s] EXCEPT !.trace = Append(@, "encode")],
                                         "encode"))
       ELSE LET bytes == Encode(st[s].data)
                rec == [st[s] EXCEPT !.pos = @ + written,
                                     !.trace = @ \o <<"encode", "write">>]
            IN  /\ written \in 0..Len(bytes)
                /\ file' = [file EXCEPT
                              !.content = WriteAt(@, st[s].pos, SubSeq(bytes, 1, written))]
                /\ IF written = Len(bytes)
                   THEN Step(s, "write", [rec EXCEPT !.phase = "sync2"])
                   ELSE Step(s, "write", panicked(rec, "write"))

\* drop(): self.file.sync_all().unwrap(), the second; then drop returns.
DropSync2(s, ok) ==
    /\ st[s].phase = "sync2"
    /\ file' = file
    /\ IF ok
       THEN Step(s, "sync2", drop_return([st[s] EXCEPT !.trace = Append(@, "sync")]))
       ELSE Step(s, "sync2", panicked(st[s], "sync"))

\* The process that panicked is gone; the slot is free for a new one.
Restart(s) ==
    /\ st[s].phase \in {"panic", "unwound"}
    /\ file' = file
    /\ Step(s, "restart", NoStore("none", <<>>))

\* One Settings ("s1") with its caller, and an independent reader ("s2")
\* that loads the same path and closes again.
Next ==
    \/ \E v \in Values : New("s1", v)
    \/ Load("s1")
    \/ Close("s1")
    \/ Guard("s1")
    \/ Deref("s1")
    \/ DropGuard("s1")
    \/ GuardMut("s1")
    \/ \E v \in Values : DerefMut("s1", v)
    \/ \E how \in ExitKinds : ExitScope("s1", how)
    \/ \E ok \in BOOLEAN : DropSetLen("s1", ok)
    \/ \E ok \in BOOLEAN : DropSync1("s1", ok)
    \/ \E ok \in BOOLEAN : DropSeek("s1", ok)
    \/ \E n \in 0..Cardinality(Keys) : DropWrite("s1", n)
    \/ \E ok \in BOOLEAN : DropSync2("s1", ok)
    \/ Restart("s1")
    \/ Load("s2")
    \/ Close("s2")

Spec == Init /\ [][Next]_vars

\* Two Settings on the same path, each with its own caller and its own
\* handle, as two processes that opened the same file.
NextTwo ==
    \E s \in Stores :
        \/ Load(s)
        \/ Close(s)
        \/ GuardMut(s)
        \/ \E v \in SUBSET Keys : DerefMut(s, v)
        \/ ExitScope(s, "normal")
        \/ \E ok \in BOOLEAN : DropSetLen(s, ok)
        \/ \E ok \in BOOLEAN : DropSync1(s, ok)
        \/ \E ok \in BOOLEAN : DropSeek(s, ok)
        \/ \E n \in 0..Cardinality(Keys) : DropWrite(s, n)
        \/ \E ok \in BOOLEAN : DropSync2(s, ok)
        \/ Restart(s)

\* The path as an earlier run of the program left it: absent, or holding
\* the encoding of a value.
InitTwo ==
    /\ file \in {[exists |-> FALSE, r |-> TRUE, w |-> TRUE, content |-> <<>>]}
            \cup {[exists |-> TRUE, r |-> TRUE, w |-> TRUE, content |-> Encode(v)] :
                    v \in SUBSET Keys}
    /\ st = [s \in Stores |-> NoStore("none", <<>>)]
    /\ ev = [op |-> "init", s |-> "s1"]

SpecTwo == InitTwo /\ [][NextTwo]_vars

---------------------------------------------------------------------------
(* Properties.                                                              *)

Loaded(s) == ev = [op |-> "load", s |-> s]

\* The last thing Settings s did to the file is a write-guard release that
\* ran to its end.
CycleDone(s) ==
    /\ st[s].phase \in {"idle", "unwound"}
    /\ st[s].writers = 0
    /\ st[s].runs > 0
    /\ ~st[s].inNew

\* new() has returned Settings s and no write guard was taken since.
JustCreated(s) ==
    /\ st[s].phase = "idle"
    /\ st[s].res = "created"
    /\ st[s].inNew
    /\ st[s].writers = 0

\* C1 as stated: after write-guard cycles of "s1" whose releases completed,
\* an independent load of the path returns Some(store) holding the value
\* the last cycle left.
C1_Original ==
    (Loaded("s2") /\ CycleDone("s1"))
        => (st["s2"].res = "some" /\ st["s2"].data = st["s1"].data)

\* C1 amended: the same, when the path can be opened for read and write;
\* when it cannot (new() made the Settings on a file that is writable but
\* not readable) the load returns None.
C1_WriteThenReload ==
    (Loaded("s2") /\ CycleDone("s1"))
        => IF CanOpenRW(file)
           THEN st["s2"].res = "some" /\ st["s2"].data = st["s1"].data
           ELSE st["s2"].res = "absent"

C1_Witness ==
    /\ Loaded("s2") /\ CycleDone("s1")
    /\ st["s1"].exit = "normal"
    /\ st["s1"].data = {"b"}
    /\ st["s2"].res = "some" /\ st["s2"].data = {"b"}

\* C2 as stated: when new() has returned, one write-back has run, the file
\* holds exactly the encoding of the value, and a following load returns
\* Some(store) with that value.
C2_Original ==
    /\ JustCreated("s1")
         => /\ st["s1"].runs = 1
            /\ file.content = Encode(st["s1"].data)
    /\ (Loaded("s2") /\ JustCreated("s1"))
         => (st["s2"].res = "some" /\ st["s2"].data = st["s1"].data)

\* C2 amended: the load returns Some(store) with the value when the path
\* can be opened for read and write, and None when it cannot.
C2_CreateThenLoad ==
    /\ JustCreated("s1")
         => /\ st["s1"].runs = 1
            /\ file.content = Encode(st["s1"].data)
    /\ (Loaded("s2") /\ JustCreated("s1"))
         => IF CanOpenRW(file)
            THEN st["s2"].res = "some" /\ st["s2"].data = st["s1"].data
            ELSE st["s2"].res = "absent"

C2_Witness ==
    /\ Loaded("s2") /\ JustCreated("s1")
    /\ st["s1"].data = {"a", "b"}
    /\ st["s2"].res = "some" /\ st["s2"].data = {"a", "b"}

\* C3: whenever Settings "s1" exists with no write guard live (after new,
\* load or a completed release, read guards or not), decoding the file
\* gives the in-memory value.
C3_DiskMatchesMemory ==
    (st["s1"].phase = "idle" /\ st["s1"].writers = 0)
        => /\ ReadOk(file.content)
           /\ DecodeOk(file.content)
           /\ DecodeVal(file.content) = st["s1"].data

C3_Witness ==
    /\ st["s1"].phase = "idle" /\ st["s1"].writers = 0
    /\ CycleDone("s1")
    /\ st["s1"].readers > 0
    /\ st["s1"].data = {"a"}

\* C3, second half: with a write guard live the value can differ from the
\* file.
C3_GuardLiveDiffers ==
    /\ st["s1"].phase = "idle" /\ st["s1"].writers > 0
    /\ DecodeOk(file.content)
    /\ DecodeVal(file.content) # st["s1"].data

\* C4: a load of a path that is absent or cannot be opened for read and
\* write returns None: no error, no Settings, and no call after the open.
C4_LoadAbsent ==
    \A s \in Stores :
        (Loaded(s) /\ ~CanOpenRW(file))
            => /\ st[s].res = "absent"
               /\ st[s].phase = "none"
               /\ st[s].trace = <<"open">>

C4_Witness ==
    /\ Loaded("s1") /\ ~file.exists
    /\ st["s1"].res = "absent"

C4_WitnessUnopenable ==
    /\ Loaded("s1") /\ file.exists /\ ~file.r
    /\ DecodeOk(file.content)
    /\ st["s1"].res = "absent"

\* C5: a load of a file that opens and whose content does not decode
\* returns an error: not None, not a Settings, not a panic.
C5_LoadCorrupt ==
    \A s \in Stores :
        (Loaded(s) /\ CanOpenRW(file) /\ ~(ReadOk(file.content) /\ DecodeOk(file.content)))
            => /\ st[s].res \in {"err_read", "err_decode"}
               /\ st[s].phase = "none"

C5_Witness ==
    /\ Loaded("s1") /\ CanOpenRW(file)
    /\ ReadOk(file.content) /\ ~DecodeOk(file.content)
    /\ st["s1"].res = "err_decode"

\* C6: at most one write guard is live, and no read guard is live while a
\* write guard is.
C6_Exclusivity ==
    \A s \in Stores :
        /\ st[s].writers <= 1
        /\ st[s].writers > 0 => st[s].readers = 0

C6_Witness ==
    /\ st["s1"].phase = "idle" /\ st["s1"].writers = 1
    /\ ev.op = "deref_mut"

\* C6, last part: read guards are live together.
C6_ReadersCoexist == st["s1"].readers >= 2 /\ st["s1"].writers = 0

ReleasePhases == {"set_len", "sync1", "seek", "write", "sync2"}

\* C7: a live write guard has run no write-back; from the end of its scope
\* on, however the scope ended, it has entered the write-back once.
C7_ReleaseOnce ==
    \A s \in Stores :
        /\ (st[s].phase = "idle" /\ st[s].writers > 0) => st[s].runs = 0
        /\ st[s].phase \in ReleasePhases => (st[s].runs = 1 /\ st[s].writers = 1)
        /\ (ev = [op |-> "exit", s |-> s]) => st[s].phase = "set_len"
        /\ (st[s].writers = 0 /\ st[s].exit # "none") => st[s].runs = 1

C7_Witness ==
    /\ st["s1"].exit = "return"
    /\ st["s1"].phase = "idle" /\ st["s1"].writers = 0
    /\ st["s1"].runs = 1
    /\ st["s1"].trace = <<"set_len", "sync", "seek", "encode", "write", "sync">>

ReadOps == {"guard", "deref", "drop_guard"}

\* C8: a step of a read guard (acquire, read, release) leaves the file, the
\* handle position, the value and the record of file calls as they were.
C8_ReadIsolation ==
    [][ev'.op \in ReadOps
        => /\ file' = file
           /\ \A s \in Stores :
                /\ st'[s].pos = st[s].pos
                /\ st'[s].data = st[s].data
                /\ st'[s].trace = st[s].trace]_vars

C8_Witness ==
    /\ ev = [op |-> "drop_guard", s |-> "s1"]
    /\ st["s1"].readers = 0
    /\ CycleDone("s1")

\* C9 as stated: new() returns an IOError, and no Settings, when the file
\* cannot be created and when the value cannot be encoded.
C9_CreateFailsWithIOError ==
    \A s \in Stores :
        /\ (ev = [op |-> "new", s |-> s] /\ ~CanCreate(file))
              => (st[s].res = "err_io" /\ st[s].phase = "none")
        /\ (st[s].inNew /\ st[s].fail = "encode")
              => (st[s].res = "err_io" /\ st[s].phase = "none")

\* C9, the half the code keeps: a file that cannot be created is an Err.
C9_CreateOpenFailure ==
    \A s \in Stores :
        (ev = [op |-> "new", s |-> s] /\ ~CanCreate(file))
            => (st[s].res = "err_io" /\ st[s].phase = "none")

\* C10 as stated: the outcome of a write guard's release sequence reaches
\* the caller as the Result of a commit().
C10_CommitReturnsOutcome ==
    \A s \in Stores :
        (~st[s].inNew /\ st[s].fail # "none")
            => (st[s].res = "commit_err" /\ st[s].phase # "panic")

FullRelease == <<"set_len", "sync", "seek", "encode", "write", "sync">>

\* The calls drop() has made so far, once it was entered.
RelTrace(rec) == IF rec.inNew THEN Tail(rec.trace) ELSE rec.trace

\* drop() was entered and has ended, by returning or by a panic.
Ended(rec) == rec.exit # "none" /\ rec.writers = 0

\* The calls made when the step named fail returns Err.
FailTraces(fail) ==
    CASE fail = "set_len" -> {<<>>}
      [] fail = "sync"    -> {SubSeq(FullRelease, 1, 1), SubSeq(FullRelease, 1, 5)}
      [] fail = "seek"    -> {SubSeq(FullRelease, 1, 2)}
      [] fail = "encode"  -> {SubSeq(FullRelease, 1, 4)}
      [] fail = "write"   -> {SubSeq(FullRelease, 1, 5)}
      [] OTHER            -> {}

\* C11: a write-back that has ended either made all its calls and returned,
\* or panicked at the first call that failed, having made exactly the calls
\* before it; a failure is always a panic, and a panicked drop() makes no
\* further call and leaves the file alone.
C11_TwoOutcomes ==
    [][\A s \in Stores :
         /\ Ended(st'[s])
              => \/ /\ st'[s].fail = "none"
                    /\ st'[s].phase \in {"idle", "unwound"}
                    /\ RelTrace(st'[s]) = FullRelease
                 \/ /\ st'[s].fail # "none"
                    /\ st'[s].phase = "panic"
                    /\ RelTrace(st'[s]) \in FailTraces(st'[s].fail)
         /\ st'[s].fail # "none" => st'[s].phase = "panic"
         /\ st[s].phase = "panic"
              => /\ st'[s] = st[s] \/ st'[s].phase = "none"
                 /\ ev'.s = s => file' = file]_vars

C11_Witness ==
    /\ st["s1"].phase = "panic"
    /\ st["s1"].fail = "seek"
    /\ ~st["s1"].inNew
    /\ st["s1"].trace = <<"set_len", "sync">>

\* C12: drop() makes its calls in the order set_len(0), sync_all, seek to
\* 0, to_vec and write_all, sync_all, and each has its effect before the
\* next: the file is empty from the truncation to the write, the write
\* starts at offset 0, and what is written is the encoding of the value as
\* it is when drop() runs.
C12_WriteBackOrder ==
    LET rec == st["s1"] IN
    rec.exit # "none" =>
        CASE rec.phase = "set_len" ->
                RelTrace(rec) = <<>>
          [] rec.phase = "sync1" ->
                RelTrace(rec) = SubSeq(FullRelease, 1, 1) /\ file.content = <<>>
          [] rec.phase = "seek" ->
                RelTrace(rec) = SubSeq(FullRelease, 1, 2) /\ file.content = <<>>
          [] rec.phase = "write" ->
                /\ RelTrace(rec) = SubSeq(FullRelease, 1, 3)
                /\ file.content = <<>> /\ rec.pos = 0
          [] rec.phase = "sync2" ->
                /\ RelTrace(rec) = SubSeq(FullRelease, 1, 5)
                /\ file.content = Encode(rec.data)
                /\ rec.pos = Len(file.content)
          [] rec.phase \in {"idle", "unwound"} /\ rec.writers = 0 ->
                /\ RelTrace(rec) = FullRelease
                /\ file.content = Encode(rec.data)
          [] OTHER -> TRUE

C12_Witness ==
    /\ st["s1"].phase = "idle" /\ Ended(st["s1"]) /\ ~st["s1"].inNew
    /\ st["s1"].acq = {"a", "b"}
    /\ st["s1"].data = {"b"}
    /\ file.content = <<"b">>

Prefixes(bytes) == {SubSeq(bytes, 1, n) : n \in 0..Len(bytes)}

\* C13: from the entry of drop() to its end, and after a panic in it, the
\* file holds the old content, nothing, or a prefix of the new encoding
\* (the whole of it included): never old and new bytes together.
C13_InterruptedRelease ==
    LET rec == st["s1"] IN
    (rec.exit # "none" /\ rec.phase \in ReleasePhases \cup {"panic"})
        => file.content \in
              {rec.old, <<>>}
                \cup (IF Encodable(rec.data) THEN Prefixes(Encode(rec.data)) ELSE {})

\* The rewrite is not atomic: a release that stopped leaves an empty file
\* where a decodable one was and a non-empty one was due.
C13_Witness ==
    /\ st["s1"].phase = "panic"
    /\ st["s1"].fail = "sync"
    /\ file.content = <<>>
    /\ st["s1"].old = <<"a">>
    /\ st["s1"].data = {"a", "b"}

\* C13: a release that stopped in its write leaves a proper prefix.
C13_WitnessTruncated ==
    /\ st["s1"].phase = "panic"
    /\ st["s1"].fail = "write"
    /\ st["s1"].old = <<"b">>
    /\ st["s1"].data = {"a", "b"}
    /\ file.content = <<"a">>

\* The next call of a drop() in progress, when the call succeeds.
ReleaseStepOk(s) ==
    \/ DropSetLen(s, TRUE)
    \/ DropSync1(s, TRUE)
    \/ DropSeek(s, TRUE)
    \/ \E n \in 0..Cardinality(Keys) : DropWrite(s, n)
    \/ DropSync2(s, TRUE)

\* C14: two Settings on one path do not wait for each other: whatever the
\* other is doing, a write guard can be taken and a release in progress can
\* make its next call.  When both have completed a release, the file holds
\* the encoding of one value, or one encoding written at offset 0 over the
\* other.
C14_Uncoordinated ==
    /\ \A s \in Stores :
         /\ CanBorrowMut(st[s]) => ENABLED GuardMut(s)
         /\ st[s].phase \in ReleasePhases => ENABLED ReleaseStepOk(s)
    /\ (CycleDone("s1") /\ CycleDone("s2"))
         => LET e1 == Encode(st["s1"].data)
                e2 == Encode(st["s2"].data)
            IN  file.content \in {e1, e2, WriteAt(e1, 0, e2), WriteAt(e2, 0, e1)}

\* Both releases completed without an error and the file is the encoding
\* of neither value (and does not decode).
C14_Witness ==
    /\ CycleDone("s1") /\ CycleDone("s2")
    /\ st["s1"].fail = "none" /\ st["s2"].fail = "none"
    /\ st["s1"].data = {"a", "b"}
    /\ st["s2"].data = {"b"}
    /\ file.content = <<"b", "b">>
    /\ ~DecodeOk(file.content)

\* Both releases completed and the file decodes, but not to the value one
\* of the two Settings holds.
C14_WitnessStale ==
    /\ CycleDone("s1") /\ CycleDone("s2")
    /\ st["s1"].phase = "idle" /\ st["s2"].phase = "idle"
    /\ DecodeOk(file.content)
    /\ DecodeVal(file.content) = st["s2"].data
    /\ DecodeVal(file.content) # st["s1"].data

\* A write guard is live and its scope has not ended.
WriteLive(rec) == rec.phase = "idle" /\ rec.writers > 0

\* C15: taking a write guard cannot fail and touches neither the file nor
\* the handle; while the guard is live, whatever is assigned through it,
\* content, length and position stay as they are; the file changes only in
\* new()'s File::create and in the set_len and write_all of a drop().
C15_AcquireNoIO ==
    [][/\ ev'.op = "guard_mut"
          => /\ WriteLive(st'[ev'.s])
             /\ st'[ev'.s].fail = "none"
             /\ st'[ev'.s].trace = st[ev'.s].trace
       /\ ev'.op \in {"guard_mut", "deref_mut"}
          => /\ file' = file
             /\ \A s \in Stores : st'[s].pos = st[s].pos
       /\ (WriteLive(st["s1"]) /\ WriteLive(st'["s1"]))
          => /\ file' = file
             /\ st'["s1"].pos = st["s1"].pos
       /\ file' # file => ev'.op \in {"new", "set_len", "write"}]_vars

C15_Witness ==
    /\ ev = [op |-> "deref_mut", s |-> "s1"]
    /\ WriteLive(st["s1"])
    /\ file.content = <<"ws", "a">>
    /\ st["s1"].pos = 2
    /\ st["s1"].acq = {"a"}
    /\ st["s1"].data = {"b"}

\* A release of Settings s that ran to its end.
Completed(rec) ==
    /\ Ended(rec)
    /\ rec.fail = "none"
    /\ rec.phase \in {"idle", "unwound"}

\* C16: whatever the handle position and the file length were when drop()
\* was entered, a completed release leaves exactly the encoding of the
\* value in the file, from offset 0, and the handle at its end.
C16_ExactBytes ==
    Completed(st["s1"])
        => /\ file.content = Encode(st["s1"].data)
           /\ Len(file.content) = Len(Encode(st["s1"].data))
           /\ \A i \in 1..Len(file.content) : file.content[i] # "nul"
           /\ st["s1"].pos = Len(file.content)

\* After a load: the handle at the end of a file longer than the new
\* encoding.
C16_Witness ==
    /\ Completed(st["s1"]) /\ ~st["s1"].inNew
    /\ st["s1"].old = <<"b", "ws", "a">>
    /\ st["s1"].pos0 = 3
    /\ st["s1"].data = {"b"}
    /\ file.content = <<"b">>

\* After a previous write: the handle behind it, the file shorter than the
\* new encoding.
C16_WitnessGrow ==
    /\ Completed(st["s1"]) /\ ~st["s1"].inNew
    /\ st["s1"].old = <<"a">>
    /\ st["s1"].pos0 = 1
    /\ st["s1"].data = {"a", "b"}
    /\ file.content = <<"a", "b">>

\* C17: a load, whatever it returns, leaves the path as it was: existence,
\* content and length.
C17_LoadLeavesFile ==
    [][ev'.op = "load" => file' = file]_vars

C17_Witness ==
    /\ Loaded("s2")
    /\ st["s2"].res = "some"
    /\ st["s1"].res = "some" /\ st["s1"].phase = "idle" /\ st["s1"].runs = 0
    /\ file.content = <<"b", "ws", "a">>

C17_WitnessAbsent ==
    /\ Loaded("s1")
    /\ st["s1"].res = "absent"
    /\ ~file.exists

C17_WitnessError ==
    /\ Loaded("s1")
    /\ st["s1"].res = "err_decode"
    /\ file.content = <<"a", "a">>

\* C18: a completed release of a write guard whose value is the one it was
\* taken with made all the calls of the write-back; the file decodes to the
\* value it decoded to before; and when the old bytes were themselves an
\* encoding (as after an earlier release) the new bytes are the same.
C18_UnmutatedRelease ==
    LET rec == st["s1"] IN
    (Completed(rec) /\ ~rec.inNew /\ rec.data = rec.acq)
        => /\ RelTrace(rec) = FullRelease
           /\ DecodeOk(rec.old) /\ DecodeOk(file.content)
           /\ DecodeVal(file.content) = DecodeVal(rec.old)
           /\ rec.old = Encode(DecodeVal(rec.old)) => file.content = rec.old

\* The first release after a load of bytes that are no encoding: same
\* value, other bytes.
C18_Witness ==
    /\ Completed(st["s1"]) /\ ~st["s1"].inNew
    /\ st["s1"].data = st["s1"].acq
    /\ st["s1"].old = <<"b", "ws", "a">>
    /\ file.content = <<"a", "b">>

\* A second release: the bytes stay.
C18_WitnessSecond ==
    /\ Completed(st["s1"]) /\ ~st["s1"].inNew
    /\ st["s1"].data = st["s1"].acq
    /\ st["s1"].old = <<"a", "b">>
    /\ st["s1"].pos0 = 2
    /\ file.content = <<"a", "b">>

====
